---------------------------- MODULE Spec2Model ----------------------------
(***************************************************************************)
(* Model of redbpf-probes/src/xdp.rs: the bounds-checked header walk of    *)
(* XdpContext (eth, ip, transport, data), the Data cursor (offset, len,    *)
(* slice), the MapData record with its trailing payload, and the XDP       *)
(* PerfMap export helpers.                                                 *)
(*                                                                         *)
(* Memory is byte addressed.  The packet occupies the addresses            *)
(* [ctx.data, ctx.data_end); pkt[i] is the byte at address                 *)
(* ctx.data + i - 1.  The target is little-endian (bpfel).                 *)
(***************************************************************************)
EXTENDS Integers, Sequences, FiniteSets, TLC

VARIABLES
    ctx,      \* the xdp_md context: [data, data_end], two u32 addresses
    pkt,      \* the bytes of the packet buffer
    cur,      \* the Data cursor the program holds: [some, base]
    res,      \* what the call in progress returned ("idle": none in progress)
    adjusts,  \* how many times the environment resized the buffer
    rec,      \* the MapData record the program holds
    events    \* the export channel: the events delivered and not yet consumed

vars == <<ctx, pkt, cur, res, adjusts, rec, events>>

(***************************************************************************)
(* Bounds of the model.                                                    *)
(***************************************************************************)
MaxLen == 70        \* longest packet buffer at the start of an invocation
MaxAdjust == 1      \* resizes of the buffer by the environment
MaxSize == 2        \* offsets and sizes of MapData records: 0..MaxSize, 4 and 20
MaxEvents == 1      \* capacity of the export channel

(***************************************************************************)
(* Program constants.                                                      *)
(***************************************************************************)
SizeOfEthhdr == 14
SizeOfIphdr == 20
SizeOfTcphdr == 20
SizeOfUdphdr == 8
ETH_P_IP == 2048
IPPROTO_TCP == 6
IPPROTO_UDP == 17

PacketAddrs == {4096}
Bytes == 0..255

(***************************************************************************)
(* Integer helpers: u32 subtraction, u16 byte order.                       *)
(*                                                                         *)
(* Addresses are u32 values below 2^30, so `base as u32` keeps its value.  *)
(* a - b on u32 is a - b when a >= b; when a < b it wraps to               *)
(* 2^32 - (b - a) (or panics with overflow checks on), a value above       *)
(* every address of the model, which Wrapped stands for.                   *)
(***************************************************************************)
Wrapped == 2^30

Sub32(a, b) == IF a >= b THEN a - b ELSE Wrapped

\* u16::from_be on a little-endian target swaps the two bytes.
from_be(x) == (x % 256) * 256 + (x \div 256)

(***************************************************************************)
(* Loads from packet memory.  A load outside [data, data_end) is undefined *)
(* behaviour; every load is logged (Deref) so that the bounds of all loads *)
(* can be checked, and an out-of-range load yields an arbitrary byte       *)
(* (taken here as 0).                                                      *)
(***************************************************************************)
InPacket(c, a) == c.data <= a /\ a < c.data_end

Load8(c, m, a) == IF InPacket(c, a) THEN m[a - c.data + 1] ELSE 0

\* a native (little-endian) u16 load
Load16(c, m, a) == Load8(c, m, a) + 256 * Load8(c, m, a + 1)

\* (*eth).h_proto: the u16 at offset 12 of ethhdr, as stored (network order)
h_proto(c, m, p) == Load16(c, m, p + 12)

\* (*ip).ihl(): the low nibble of byte 0 of iphdr
ihl(c, m, p) == Load8(c, m, p) % 16

\* (*ip).protocol: byte 9 of iphdr
protocol(c, m, p) == Load8(c, m, p + 9)

\* (*hdr).doff(): the high nibble of byte 12 of tcphdr
doff(c, m, p) == Load8(c, m, p + 12) \div 16

\* The log entry of a field load through a header pointer: the header
\* struct the pointer is typed as, where it is, its size, and the byte read.
Deref(h, p, n, f) == [hdr |-> h, at |-> p, size |-> n, field |-> p + f]

(***************************************************************************)
(* Option values.                                                          *)
(***************************************************************************)
None(rd) == [some |-> FALSE, tag |-> "none", ptr |-> 0, reads |-> rd]

Some(t, p, rd) == [some |-> TRUE, tag |-> t, ptr |-> p, reads |-> rd]

(***************************************************************************)
(* XdpContext                                                              *)
(***************************************************************************)
XdpContext_len(c) == Sub32(c.data_end, c.data)

\* eth.add(1) > end fails
eth_fits(c, p) == ~(p + SizeOfEthhdr > c.data_end)

eth(c) ==
    LET p == c.data
    IN  IF ~eth_fits(c, p)
        THEN None({})
        ELSE Some("eth", p, {})

\* a build that compares against the host-order constant
is_ipv4_mut(c, m, p) == h_proto(c, m, p) = ETH_P_IP

\* (*eth).h_proto != u16::from_be(ETH_P_IP as u16) fails
is_ipv4(c, m, p) == h_proto(c, m, p) = from_be(ETH_P_IP)

\* a build without the bounds check of the IP header
ip_fits_mut(c, p) == TRUE

\* ip.add(1) > data_end fails
ip_fits(c, p) == ~(p + SizeOfIphdr > c.data_end)

ip(c, m) ==
    LET e == eth(c)
    IN  IF ~e.some
        THEN None(e.reads)
        ELSE LET rd == e.reads \cup {Deref("ethhdr", e.ptr, SizeOfEthhdr, 12)}
                 p  == e.ptr + SizeOfEthhdr
             IN  IF ~is_ipv4(c, m, e.ptr)
                 THEN None(rd)
                 ELSE IF ~ip_fits(c, p)
                      THEN None(rd)
                      ELSE Some("ip", p, rd)

\* a build that takes the IP header to be sizeof(iphdr) long
transport_base_mut(c, m, p) == p + SizeOfIphdr

\* (ip as *const u8).add(((*ip).ihl() * 4) as usize)
transport_base(c, m, p) == p + ihl(c, m, p) * 4

\* a build whose check is off by one
transport_fits_mut(c, base, size) == ~(base + size >= c.data_end)

\* base.add(size) > data_end fails
transport_fits(c, base, size) == ~(base + size > c.data_end)

transport(c, m) ==
    LET i == ip(c, m)
    IN  IF ~i.some
        THEN None(i.reads)
        ELSE LET rd   == i.reads \cup {Deref("iphdr", i.ptr, SizeOfIphdr, 0),
                                       Deref("iphdr", i.ptr, SizeOfIphdr, 9)}
                 base == transport_base(c, m, i.ptr)
                 prot == protocol(c, m, i.ptr)
             IN  IF prot = IPPROTO_TCP
                 THEN IF ~transport_fits(c, base, SizeOfTcphdr)
                      THEN None(rd)
                      ELSE Some("TCP", base, rd)
                 ELSE IF prot = IPPROTO_UDP
                      THEN IF ~transport_fits(c, base, SizeOfUdphdr)
                           THEN None(rd)
                           ELSE Some("UDP", base, rd)
                      ELSE None(rd)

\* a build that skips the whole data offset after the fixed header
tcp_base_mut(c, m, hdr) ==
    LET data_offset == doff(c, m, hdr)
    IN  IF data_offset > 5
        THEN hdr + SizeOfTcphdr + data_offset * 4
        ELSE hdr + SizeOfTcphdr

\* the cursor of the TCP arm of data(), before the final bounds check
tcp_base(c, m, hdr) ==
    LET data_offset == doff(c, m, hdr)
    IN  IF data_offset > 5
        THEN hdr + SizeOfTcphdr + (data_offset - 5) * 4
        ELSE hdr + SizeOfTcphdr

\* a build that steps over a TCP-sized header
udp_base_mut(hdr) == hdr + SizeOfTcphdr

\* the cursor of the UDP arm of data(): hdr.add(1)
udp_base(hdr) == hdr + SizeOfUdphdr

data(c, m) ==
    LET t == transport(c, m)
    IN  IF ~t.some
        THEN None(t.reads)
        ELSE IF t.tag = "TCP"
             THEN IF t.ptr + SizeOfTcphdr > c.data_end
                  THEN None(t.reads)
                  ELSE LET rd   == t.reads \cup
                                     {Deref("tcphdr", t.ptr, SizeOfTcphdr, 12)}
                           base == tcp_base(c, m, t.ptr)
                       IN  IF base > c.data_end
                           THEN None(rd)
                           ELSE Some("Data", base, rd)
             ELSE LET base == udp_base(t.ptr)
                  IN  IF base > c.data_end
                      THEN None(t.reads)
                      ELSE Some("Data", base, t.reads)

(***************************************************************************)
(* Data: the cursor {ctx, base}.  ctx is a pointer to the context, so the  *)
(* bounds are those of the context when the accessor is called.            *)
(***************************************************************************)
\* a build that returns the address instead of the offset
Data_offset_mut(c, d) == d.base

Data_offset(c, d) == Sub32(d.base, c.data)

Data_len(c, d) == Sub32(c.data_end, d.base)

\* slice::from_raw_parts(self.base, self.len())
full_slice(c, m, d) ==
    [k \in 1..Data_len(c, d) |-> Load8(c, m, d.base + k - 1)]

\* a build that refuses the slice that takes every byte
Data_slice_mut(c, m, d, n) ==
    LET full == full_slice(c, m, d)
    IN  IF n >= Len(full)
        THEN [some |-> FALSE, bytes |-> <<>>]
        ELSE [some |-> TRUE, bytes |-> SubSeq(full, 1, n)]

\* full_slice.get(..len)
Data_slice(c, m, d, n) ==
    LET full == full_slice(c, m, d)
    IN  IF n > Len(full)
        THEN [some |-> FALSE, bytes |-> <<>>]
        ELSE [some |-> TRUE, bytes |-> SubSeq(full, 1, n)]

(***************************************************************************)
(* MapData<T>: {data, offset, size, payload: [u8; 0]}.  The bytes that     *)
(* follow the record in memory are not part of it; payload() is given      *)
(* them as `trailing`.                                                     *)
(***************************************************************************)
with_payload(d, o, s) == [some |-> TRUE, data |-> d, offset |-> o, size |-> s]

MapData_new(self, d) == with_payload(d, 0, 0)

\* a build that takes size for the length of the payload
payload_mut(r, trailing) ==
    LET n == r.size
    IN  IF r.offset + n <= Len(trailing)
        THEN [ub |-> FALSE, bytes |-> SubSeq(trailing, r.offset + 1, r.offset + n)]
        ELSE [ub |-> TRUE, bytes |-> <<>>]

\* slice::from_raw_parts(payload.as_ptr().add(offset), size - offset):
\* reading past the bytes that follow the record is undefined behaviour.
payload(r, trailing) ==
    LET n == Sub32(r.size, r.offset)
    IN  IF r.offset + n <= Len(trailing)
        THEN [ub |-> FALSE, bytes |-> SubSeq(trailing, r.offset + 1, r.offset + n)]
        ELSE [ub |-> TRUE, bytes |-> <<>>]

(***************************************************************************)
(* PerfMap<T>: the XDP wrappers around the export channel.  Each returns   *)
(* `()`; what it hands to the channel is the record and the flags.         *)
(***************************************************************************)
\* PerfMapFlags::with_xdp_size: keyed by the current CPU
with_xdp_size(size) == [index |-> "cpu", xdp_size |-> size]

\* the call PerfMap::insert makes on the channel
insert(r) == [record |-> r, flags |-> with_xdp_size(r.size)]

\* the call PerfMap::insert_with_flags makes on the channel
insert_with_flags(r, flags) ==
    [record |-> r, flags |-> [flags EXCEPT !.xdp_size = r.size]]

\* what insert / insert_with_flags return to their caller, given what the
\* channel answered: both are declared without a return type
insert_returns(answer) == "unit"

(***************************************************************************)
(* The export channel: not part of this file.  It takes the record and,    *)
(* after it, the first xdp_size bytes of the packet; it rejects the event  *)
(* when it is full or when the packet has fewer than xdp_size bytes.       *)
(***************************************************************************)
channel_insert(evs, m, call) ==
    IF Len(evs) >= MaxEvents \/ call.flags.xdp_size > Len(m)
    THEN [answer |-> "rejected", events |-> evs]
    ELSE [answer |-> "ok",
          events |-> Append(evs, [record   |-> call.record,
                                  key      |-> call.flags.index,
                                  trailing |-> SubSeq(m, 1, call.flags.xdp_size)])]

(***************************************************************************)
(* Packets.  Frame builds the first L bytes of an Ethernet frame whose     *)
(* EtherType is etype, whose IP header carries the given IHL and protocol  *)
(* and, for TCP, whose TCP header (at 14 + 4 * IHL) carries the given data *)
(* offset; every other byte is Filler.                                     *)
(***************************************************************************)
Filler(o) == (o * 7 + 3) % 256

Frame(L, etype, ihlv, proto, doffv) ==
    [i \in 1..L |->
        LET o == i - 1
        IN  IF o = 12 THEN etype \div 256
            ELSE IF o = 13 THEN etype % 256
            ELSE IF o = 14 THEN 64 + ihlv
            ELSE IF o = 23 THEN proto
            ELSE IF o = 14 + 4 * ihlv + 12 /\ proto = IPPROTO_TCP THEN doffv * 16
            ELSE Filler(o)]

Nibbles == 0..15
Lengths == 0..MaxLen
OtherEtherTypes == {8, 34525}    \* 0x0008 (IPv4 byte-swapped), 0x86DD (IPv6)
OtherProtocols == {1}            \* ICMP
LongLengths == {81, 82, 93, 94}  \* around 14 + 60 + 8 and 14 + 60 + 20 = 14 + 20 + 60

Configs ==
    {<<L, ETH_P_IP, i, IPPROTO_TCP, d>> : L \in Lengths, i \in Nibbles, d \in Nibbles}
    \cup {<<L, ETH_P_IP, i, p, 0>> :
             L \in Lengths, i \in Nibbles, p \in {IPPROTO_UDP} \cup OtherProtocols}
    \cup {<<L, e, 5, IPPROTO_TCP, 5>> : L \in Lengths, e \in OtherEtherTypes}
    \cup {<<L, ETH_P_IP, i, p, d>> :
             L \in LongLengths, i \in {5, 15}, p \in {IPPROTO_TCP, IPPROTO_UDP},
             d \in {5, 15}}

Idle == [op |-> "idle"]
NoData == [some |-> FALSE, base |-> 0]
NoRec == [some |-> FALSE, data |-> 0, offset |-> 0, size |-> 0]

Init ==
    \E cfg \in Configs, a \in PacketAddrs :
        /\ ctx = [data |-> a, data_end |-> a + cfg[1]]
        /\ pkt = Frame(cfg[1], cfg[2], cfg[3], cfg[4], cfg[5])
        /\ cur = NoData
        /\ res = Idle
        /\ adjusts = 0
        /\ rec = NoRec
        /\ events = <<>>

(***************************************************************************)
(* The operations of an XDP program on its context and cursor.  The        *)
(* program is sequential: it makes one call at a time, res holds what the  *)
(* call returned, and Drop ends the use of that value.                     *)
(***************************************************************************)
Drop ==
    /\ res # Idle
    /\ res' = Idle
    /\ UNCHANGED <<ctx, pkt, cur, adjusts, rec, events>>

Len_ ==
    /\ res = Idle
    /\ res' = [op |-> "len", v |-> XdpContext_len(ctx)]
    /\ UNCHANGED <<ctx, pkt, cur, adjusts, rec, events>>

Eth ==
    /\ res = Idle
    /\ res' = [op |-> "eth", r |-> eth(ctx)]
    /\ UNCHANGED <<ctx, pkt, cur, adjusts, rec, events>>

Ip ==
    /\ res = Idle
    /\ res' = [op |-> "ip", r |-> ip(ctx, pkt)]
    /\ UNCHANGED <<ctx, pkt, cur, adjusts, rec, events>>

Transport ==
    /\ res = Idle
    /\ res' = [op |-> "transport", r |-> transport(ctx, pkt)]
    /\ UNCHANGED <<ctx, pkt, cur, adjusts, rec, events>>

GetData ==
    LET r == data(ctx, pkt)
    IN  /\ res = Idle
        /\ res' = [op |-> "data", r |-> r]
        /\ cur' = IF r.some THEN [some |-> TRUE, base |-> r.ptr] ELSE cur
        /\ UNCHANGED <<ctx, pkt, adjusts, rec, events>>

Offset ==
    /\ res = Idle
    /\ cur.some
    /\ res' = [op |-> "offset", v |-> Data_offset(ctx, cur)]
    /\ UNCHANGED <<ctx, pkt, cur, adjusts, rec, events>>

DataLen ==
    /\ res = Idle
    /\ cur.some
    /\ res' = [op |-> "data_len", v |-> Data_len(ctx, cur)]
    /\ UNCHANGED <<ctx, pkt, cur, adjusts, rec, events>>

Slice ==
    /\ res = Idle
    /\ cur.some
    /\ \E n \in 0..(Data_len(ctx, cur) + 5) :
           res' = [op |-> "slice", n |-> n, r |-> Data_slice(ctx, pkt, cur, n)]
    /\ UNCHANGED <<ctx, pkt, cur, adjusts, rec, events>>

(***************************************************************************)
(* The environment resizes the buffer between two calls of a program that  *)
(* holds a cursor (the head or the tail moves by one byte); the cursor     *)
(* stays inside the buffer.  A resize before any cursor is obtained only   *)
(* gives another of the initial packets.                                   *)
(***************************************************************************)
Resized(c) ==
    /\ c.data <= c.data_end
    /\ cur.some => (c.data <= cur.base /\ cur.base <= c.data_end)

AdjustHead ==
    /\ res = Idle
    /\ cur.some
    /\ adjusts < MaxAdjust
    /\ \E d \in {-1, 1} :
          LET c == [ctx EXCEPT !.data = ctx.data + d]
          IN  /\ Resized(c)
              /\ ctx' = c
              /\ pkt' = IF d = 1 THEN Tail(pkt) ELSE <<0>> \o pkt
    /\ adjusts' = adjusts + 1
    /\ UNCHANGED <<cur, res, rec, events>>

AdjustTail ==
    /\ res = Idle
    /\ cur.some
    /\ adjusts < MaxAdjust
    /\ \E d \in {-1, 1} :
          LET c == [ctx EXCEPT !.data_end = ctx.data_end + d]
          IN  /\ Resized(c)
              /\ ctx' = c
              /\ pkt' = IF d = 1 THEN Append(pkt, 0) ELSE SubSeq(pkt, 1, Len(pkt) - 1)
    /\ adjusts' = adjusts + 1
    /\ UNCHANGED <<cur, res, rec, events>>

Next ==
    \/ Len_
    \/ Eth
    \/ Ip
    \/ Transport
    \/ GetData
    \/ Offset
    \/ DataLen
    \/ Slice
    \/ AdjustHead
    \/ AdjustTail
    \/ Drop

Spec == Init /\ [][Next]_vars

(***************************************************************************)
(* The operations on MapData records and the export channel.               *)
(***************************************************************************)
DataVals == {7}
Offsets == (0..MaxSize) \cup {4}
Sizes == (0..MaxSize) \cup {20}
FlagSets == [index : {"cpu", "index0"}, xdp_size : {0, MaxSize}]
ExportLens == {1, 20}

\* what a read past the bytes that follow a record may yield
Garbage == {<<>>, <<0>>}

InitExport ==
    \E L \in ExportLens, a \in PacketAddrs :
        /\ ctx = [data |-> a, data_end |-> a + L]
        /\ pkt = Frame(L, ETH_P_IP, 5, IPPROTO_UDP, 0)
        /\ cur = NoData
        /\ res = Idle
        /\ adjusts = 0
        /\ rec = NoRec
        /\ events = <<>>

\* MapData::with_payload(data, offset, size): size >= offset is not checked
WithPayload ==
    /\ res = Idle
    /\ \E d \in DataVals, o \in Offsets, s \in Sizes :
          /\ rec' = with_payload(d, o, s)
          /\ res' = [op |-> "with_payload"]
    /\ UNCHANGED <<ctx, pkt, cur, adjusts, events>>

\* MapData::new(&self, data): called on a record the program holds
New ==
    /\ res = Idle
    /\ rec.some
    /\ \E d \in DataVals :
          /\ rec' = MapData_new(rec, d)
          /\ res' = [op |-> "new"]
    /\ UNCHANGED <<ctx, pkt, cur, adjusts, events>>

\* payload() as called on record r, which `trailing` follows in memory
Observe(from, r, trailing) ==
    LET p == payload(r, trailing)
    IN  \E g \in (IF p.ub THEN Garbage ELSE {p.bytes}) :
           res' = [op |-> "payload", from |-> from, record |-> r,
                   trailing |-> trailing, ub |-> p.ub, bytes |-> g]

\* payload() on the record the program holds: nothing was appended to it
Payload ==
    /\ res = Idle
    /\ rec.some
    /\ Observe("local", rec, <<>>)
    /\ UNCHANGED <<ctx, pkt, cur, adjusts, rec, events>>

\* the consumer takes the oldest event and reads its payload()
Consume ==
    /\ res = Idle
    /\ events # <<>>
    /\ Observe("event", Head(events).record, Head(events).trailing)
    /\ events' = Tail(events)
    /\ UNCHANGED <<ctx, pkt, cur, adjusts, rec>>

\* one call on the channel, and what the wrapper returns for its answer
Export(op, call) ==
    LET out == channel_insert(events, pkt, call)
    IN  /\ events' = out.events
        /\ res' = [op |-> op, size |-> call.record.size, flags |-> call.flags,
                   calls |-> 1, answer |-> out.answer,
                   ret |-> insert_returns(out.answer)]

\* PerfMap::insert(ctx, data): the record is moved into the call
Insert ==
    /\ res = Idle
    /\ rec.some
    /\ Export("insert", insert(rec))
    /\ rec' = NoRec
    /\ UNCHANGED <<ctx, pkt, cur, adjusts>>

\* PerfMap::insert_with_flags(ctx, data, flags)
InsertWithFlags ==
    /\ res = Idle
    /\ rec.some
    /\ \E f \in FlagSets : Export("insert_with_flags", insert_with_flags(rec, f))
    /\ rec' = NoRec
    /\ UNCHANGED <<ctx, pkt, cur, adjusts>>

NextExport ==
    \/ WithPayload
    \/ New
    \/ Payload
    \/ Consume
    \/ Insert
    \/ InsertWithFlags
    \/ Drop

SpecExport == InitExport /\ [][NextExport]_vars

(***************************************************************************)
(* Properties.  Packet fields are read here straight from pkt, by their    *)
(* offset in the frame, not through the accessors of the model.            *)
(***************************************************************************)
Accessors == {"eth", "ip", "transport", "data"}

HdrSize(tag) ==
    CASE tag = "eth" -> SizeOfEthhdr
      [] tag = "ip"  -> SizeOfIphdr
      [] tag = "TCP" -> SizeOfTcphdr
      [] tag = "UDP" -> SizeOfUdphdr

\* the byte at offset o of the packet
ByteAt(o) == pkt[o + 1]

\* a frame cut to its length: Ethernet(IPv4) + IPv4(IHL 5, TCP) + TCP
WellFormedTcp ==
    \E d \in Nibbles : pkt = Frame(Len(pkt), ETH_P_IP, 5, IPPROTO_TCP, d)

\* a frame cut to its length: Ethernet(IPv4) + IPv4(IHL 5, UDP) + UDP
WellFormedUdp == pkt = Frame(Len(pkt), ETH_P_IP, 5, IPPROTO_UDP, 0)

\* C1: whenever eth(), ip() or transport() returns present, the whole
\* fixed-size header it points to lies inside [data, data_end); whenever
\* data() returns present, data <= base <= data_end; and every header
\* field an accessor has read belongs to a header that lies wholly inside
\* [data, data_end) (the field is read only after the check that the
\* header fits has passed).
C1_HeadersInBounds ==
    /\ (res.op \in {"eth", "ip", "transport"} /\ res.r.some) =>
          /\ ctx.data <= res.r.ptr
          /\ res.r.ptr + HdrSize(res.r.tag) <= ctx.data_end
    /\ (res.op = "data" /\ res.r.some) =>
          /\ ctx.data <= res.r.ptr
          /\ res.r.ptr <= ctx.data_end
    /\ res.op \in Accessors =>
          \A d \in res.r.reads :
              /\ ctx.data <= d.at
              /\ d.at + d.size <= ctx.data_end
              /\ d.at <= d.field /\ d.field < d.at + d.size

\* C1 witness: data() returned a cursor on a TCP packet after reading
\* h_proto, ihl, protocol and doff.
C1_Witness ==
    /\ res.op = "data"
    /\ res.r.some
    /\ \E d \in res.r.reads : d.hdr = "tcphdr"
    /\ \E d \in res.r.reads : d.hdr = "ethhdr"

\* C2: for every buffer shorter than 14 bytes eth() returns absent; for
\* every buffer of at least 14 bytes whose EtherType bytes are not 08 00
\* (IPv4 in network byte order) ip() returns absent, however many bytes
\* follow the Ethernet header.
C2_ShortOrNotIPv4 ==
    /\ (res.op = "eth" /\ Len(pkt) < SizeOfEthhdr) => ~res.r.some
    /\ (/\ res.op = "ip"
        /\ Len(pkt) >= SizeOfEthhdr
        /\ <<ByteAt(12), ByteAt(13)>> # <<ETH_P_IP \div 256, ETH_P_IP % 256>>)
       => ~res.r.some

\* C2 witness: ip() returned absent on a frame long enough for both
\* headers whose EtherType bytes are 00 08.
C2_Witness ==
    /\ res.op = "ip"
    /\ Len(pkt) >= SizeOfEthhdr + SizeOfIphdr
    /\ ByteAt(12) = 0 /\ ByteAt(13) = 8
    /\ ~res.r.some

\* C3 as stated: for a well-formed Ethernet+IPv4 frame of total length L
\* with IHL = 5 and protocol TCP, transport() returns a TCP-tagged
\* Transport if and only if 20 + sizeof(tcphdr) <= L.
C3_Original ==
    (res.op = "transport" /\ WellFormedTcp) =>
        ((res.r.some /\ res.r.tag = "TCP") <=> 20 + SizeOfTcphdr <= Len(pkt))

\* C3 amended: for such a frame transport() returns a TCP-tagged Transport
\* if and only if 14 + 20 + sizeof(tcphdr) <= L (the Ethernet header
\* counts): L >= 54.
C3_Amended ==
    (res.op = "transport" /\ WellFormedTcp) =>
        ((res.r.some /\ res.r.tag = "TCP")
            <=> SizeOfEthhdr + 20 + SizeOfTcphdr <= Len(pkt))

\* C3 witness: transport() returned TCP on the shortest such frame.
C3_Witness ==
    /\ res.op = "transport"
    /\ WellFormedTcp
    /\ Len(pkt) = 54
    /\ res.r.some /\ res.r.tag = "TCP"

\* C4: on a TCP packet whose data-offset field is d, data() puts the
\* cursor (d - 5) * 4 bytes past the end of the fixed 20-byte TCP header
\* when d > 5 and at the end of the fixed header otherwise; data() returns
\* present if and only if transport() is present and that cursor is
\* <= data_end.
C4_TcpCursor ==
    res.op = "data" =>
        LET t == transport(ctx, pkt)
        IN  /\ ~t.some => ~res.r.some
            /\ (t.some /\ t.tag = "TCP") =>
                  LET d      == ByteAt(t.ptr - ctx.data + 12) \div 16
                      cursor == t.ptr + 20 + (IF d > 5 THEN (d - 5) * 4 ELSE 0)
                  IN  /\ res.r.some <=> cursor <= ctx.data_end
                      /\ res.r.some => res.r.ptr = cursor

\* C4 witness: data() returned a cursor 12 bytes past the fixed TCP header
\* of a packet with data offset 8.
C4_Witness ==
    /\ res.op = "data"
    /\ res.r.some
    /\ LET t == transport(ctx, pkt)
       IN  /\ t.some /\ t.tag = "TCP"
           /\ ByteAt(t.ptr - ctx.data + 12) \div 16 = 8
           /\ res.r.ptr = t.ptr + 20 + 12

\* C5: for every cursor data() returned, what offset() and len() return
\* add up to XdpContext::len() = data_end - data, each computed from the
\* context's bounds at the time of the call.
C5_LenPlusOffset ==
    /\ res.op = "offset" =>
          res.v + Data_len(ctx, cur) = ctx.data_end - ctx.data
    /\ res.op = "data_len" =>
          Data_offset(ctx, cur) + res.v = ctx.data_end - ctx.data
    /\ res.op = "len" => res.v = ctx.data_end - ctx.data

\* C5 witness: offset() was called on a cursor obtained before the buffer
\* was resized (data() no longer parses the resized buffer).
C5_Witness ==
    /\ res.op = "offset"
    /\ res.v > 0
    /\ adjusts > 0
    /\ ~data(ctx, pkt).some

\* C6: for every cursor and every n from 0 to len() + 5, slice(n) returns
\* None when n > len() and otherwise exactly the n bytes [base, base + n)
\* of the packet; slice(0) on a zero-length payload is an empty slice.
C6_Slice ==
    res.op = "slice" =>
        LET length == ctx.data_end - cur.base
        IN  /\ res.n > length => ~res.r.some
            /\ res.n <= length =>
                  /\ res.r.some
                  /\ Len(res.r.bytes) = res.n
                  /\ \A k \in 1..res.n :
                        res.r.bytes[k] = ByteAt(cur.base - ctx.data + k - 1)

\* C6 witness: slice(0) returned an empty slice on a zero-length payload.
C6_Witness ==
    /\ res.op = "slice"
    /\ res.n = 0
    /\ cur.base = ctx.data_end
    /\ res.r.some
    /\ res.r.bytes = <<>>

\* C7: for a record with size >= offset that is followed in memory by
\* size appended bytes, payload() returns exactly bytes [offset, size) of
\* the appended region, size - offset bytes; a record built with new(d)
\* has offset = 0 and size = 0 and yields an empty payload.
C7_PayloadRoundTrip ==
    /\ (/\ res.op = "payload"
        /\ res.record.size >= res.record.offset
        /\ Len(res.trailing) = res.record.size)
       => /\ ~res.ub
          /\ Len(res.bytes) = res.record.size - res.record.offset
          /\ \A k \in 1..Len(res.bytes) :
                res.bytes[k] = res.trailing[res.record.offset + k]
    /\ res.op = "new" =>
          /\ rec.offset = 0
          /\ rec.size = 0
          /\ payload(rec, <<>>) = [ub |-> FALSE, bytes |-> <<>>]

\* C7 witness: the consumer read the 16 bytes [4, 20) of an event built
\* with with_payload(d, 4, 20) and exported with 20 appended bytes.
C7_Witness ==
    /\ res.op = "payload"
    /\ res.from = "event"
    /\ res.record.offset = 4
    /\ res.record.size = 20
    /\ Len(res.trailing) = 20
    /\ Len(res.bytes) = 16

\* C8 as stated: on the 54-byte packet Ethernet(IPv4) + IPv4(IHL 5, UDP) +
\* UDP header, data() returns a cursor whose len() is 0; on the same
\* packet cut to 50 bytes, transport() returns absent.
C8_Original ==
    /\ (res.op = "data" /\ WellFormedUdp /\ Len(pkt) = 54) =>
          (res.r.some /\ Data_len(ctx, cur) = 0)
    /\ (res.op = "transport" /\ WellFormedUdp /\ Len(pkt) = 50) => ~res.r.some

\* C8 amended: the three headers take 14 + 20 + 8 = 42 bytes.  On the
\* 42-byte packet data() returns a cursor whose len() is 0 (on a 54-byte
\* one, whose len() is 12); on the packet cut to 38 bytes, or to any
\* length below 42, transport() returns absent.
C8_Amended ==
    /\ (res.op = "data" /\ WellFormedUdp /\ Len(pkt) = 42) =>
          (res.r.some /\ Data_len(ctx, cur) = 0)
    /\ (res.op = "data" /\ WellFormedUdp /\ Len(pkt) = 54) =>
          (res.r.some /\ Data_len(ctx, cur) = 12)
    /\ (res.op = "transport" /\ WellFormedUdp /\ Len(pkt) < 42) => ~res.r.some

\* C8 witness: data() returned a cursor on the 42-byte packet.
C8_Witness ==
    /\ res.op = "data"
    /\ WellFormedUdp
    /\ Len(pkt) = 42
    /\ res.r.some
    /\ cur.base = ctx.data_end

\* C9: when the channel rejects an insert, insert and insert_with_flags
\* return the failure to the caller; they call the channel once; and the
\* trailing-byte count they pass equals the record's size.
C9_FailureReturned ==
    res.op \in {"insert", "insert_with_flags"} =>
        /\ res.answer = "rejected" => res.ret = "failure"
        /\ res.calls = 1
        /\ res.flags.xdp_size = res.size

\* C10: for every IHL 0..15 transport() puts the transport header at
\* ip_header_start + 4 * IHL and returns present if and only if ip() is
\* present, the protocol is TCP (6) or UDP (17), and
\* 14 + 4 * IHL + size <= L, size being 20 for TCP and 8 for UDP.
C10_TransportPlacement ==
    res.op = "transport" =>
        LET i == ip(ctx, pkt)
        IN  IF ~i.some
            THEN ~res.r.some
            ELSE LET h    == ByteAt(14) % 16
                     p    == ByteAt(23)
                     size == IF p = 6 THEN 20 ELSE 8
                 IN  /\ res.r.some <=>
                           (p \in {6, 17} /\ 14 + 4 * h + size <= Len(pkt))
                     /\ res.r.some =>
                           /\ res.r.ptr = i.ptr + 4 * h
                           /\ res.r.tag = (IF p = 6 THEN "TCP" ELSE "UDP")

\* C10 witness: transport() returned a header that overlaps the IP header
\* (IHL below 5).
C10_Witness ==
    /\ res.op = "transport"
    /\ res.r.some
    /\ ByteAt(14) % 16 < 5
    /\ res.r.ptr < ctx.data + SizeOfEthhdr + SizeOfIphdr

=============================================================================
